---- MODULE Spec2Model ----
(***************************************************************************)
(* Model of the webview context menu of waveboxapp:                        *)
(*   src/scenes/platform/src/webviewInjection/Browser/ContextMenu.js       *)
(*                                                                         *)
(* Representation.                                                         *)
(*  - JavaScript strings are TLA+ strings.  The three non-ASCII characters *)
(*    of the source are written with one-character ASCII stand-ins:        *)
(*    "{" for the opening curly quote, "}" for the closing curly quote and *)
(*    "^" for the ellipsis.                                                *)
(*  - An absent string parameter (no misspelled word, no selection, no     *)
(*    link) is the empty string, which JavaScript treats as false.         *)
(*  - A nullable object is a sequence of length 0 (null / undefined) or 1. *)
(*  - A menu node is a record [type, label, enabled, role, click,          *)
(*    submenu]; `enabled` is the effective value (a template that gives no *)
(*    `enabled` key yields an enabled item).  A click closure is the call  *)
(*    it makes when it is run: [op, arg].                                  *)
(*  - A TypeError raised while the handler runs is the result field        *)
(*    threw = TRUE.                                                        *)
(***************************************************************************)
EXTENDS Integers, Sequences, FiniteSets, TLC

VARIABLES
  platform,     \* process.platform
  listeners,    \* webContents' 'context-menu' listeners: the bound instances
  constructed,  \* number of ContextMenu instances constructed so far
  lastEvent,    \* <<>> or <<[params, suggestions, runs]>>: the last event emitted
  menus,        \* menus popped up by the last event: [template, state]
  effects,      \* calls made by item activations since the last event
  arg,          \* pure-function specifications: the input
  ret           \* pure-function specifications: <<>> or <<the result>>

vars == <<platform, listeners, constructed, lastEvent, menus, effects, arg, ret>>

-----------------------------------------------------------------------------
(* Bounds of the model *)

MaxInstances == 2
MaxSuggestions == 2
MaxSelLen == 52
MaxRenderLen == 4

-----------------------------------------------------------------------------
(* Values *)

Null == <<>>
Some(v) == <<v>>
IsNull(o) == o = <<>>
Val(o) == o[1]

\* JavaScript truthiness of a string
Truthy(s) == s # ""

LQuote == "{"
RQuote == "}"
Ellipsis == "^"

NoClick == [op |-> "none", arg |-> ""]
NoRole == ""

Item(label, click) ==
  [type |-> "normal", label |-> label, enabled |-> TRUE, role |-> NoRole,
   click |-> click, submenu |-> <<>>]

DisabledItem(label) ==
  [type |-> "normal", label |-> label, enabled |-> FALSE, role |-> NoRole,
   click |-> NoClick, submenu |-> <<>>]

RoleItem(label, role, enabled) ==
  [type |-> "normal", label |-> label, enabled |-> enabled, role |-> role,
   click |-> NoClick, submenu |-> <<>>]

Submenu(label, items) ==
  [type |-> "submenu", label |-> label, enabled |-> TRUE, role |-> NoRole,
   click |-> NoClick, submenu |-> items]

Separator ==
  [type |-> "separator", label |-> "", enabled |-> TRUE, role |-> NoRole,
   click |-> NoClick, submenu |-> <<>>]

IsSeparator(node) == node.type = "separator"

Call(op, a) == [op |-> op, arg |-> a]

-----------------------------------------------------------------------------
(* Collaborators *)

\* window.location.href
LocationHref == "https://mail.example/inbox"

\* dictInfo[language].name, "" when the language is not in the table
DictName(language) ==
  CASE language = "en_US" -> "English (US)"
    [] language = "de_DE" -> "German"
    [] OTHER -> ""

\* (dictInfo[language] || {}).name || language
LanguageLabel(language) ==
  IF Truthy(DictName(language)) THEN DictName(language) ELSE language

\* encodeURIComponent on one character: unreserved characters are kept, the
\* others become the %XX bytes of their UTF-8 encoding.
EncodeChar(c) ==
  CASE c = " " -> "%20"
    [] c = "&" -> "%26"
    [] c = "?" -> "%3F"
    [] c = "=" -> "%3D"
    [] c = "/" -> "%2F"
    [] c = "%" -> "%25"
    [] c = "+" -> "%2B"
    [] c = "#" -> "%23"
    [] c = ":" -> "%3A"
    [] c = LQuote -> "%E2%80%9C"
    [] c = RQuote -> "%E2%80%9D"
    [] c = Ellipsis -> "%E2%80%A6"
    [] OTHER -> c

RECURSIVE encodeURIComponent(_)
encodeURIComponent(s) ==
  IF s = "" THEN ""
  ELSE EncodeChar(SubSeq(s, 1, 1)) \o encodeURIComponent(SubSeq(s, 2, Len(s)))

\* String.prototype.substr(0, n)
Substr0(s, n) == IF Len(s) <= n THEN s ELSE SubSeq(s, 1, n)

-----------------------------------------------------------------------------
(* constructor *)

DefaultConfig ==
  [copyCurrentPageUrlOption |-> FALSE, openCurrentPageInBrowserOption |-> FALSE]

\* Object.assign({}, ContextMenu.defaultConfig, config): config is a record
\* with a subset of the keys
AssignConfig(config) ==
  [k \in DOMAIN DefaultConfig |->
     IF k \in DOMAIN config THEN config[k] ELSE DefaultConfig[k]]

NewInstance(id, spellchecker, config) ==
  [id |-> id, spellchecker |-> spellchecker, config |-> AssignConfig(config)]

\* Faulty variant: the listener is added without clearing the earlier ones.
ListenersKeepOld(old, self) == Append(old, self)

\* removeAllListeners('context-menu') then on('context-menu', launchMenu.bind(this))
RebindListeners(old, self) == <<self>>

-----------------------------------------------------------------------------
(* _renderSuggestionMenuItems_ *)

RECURSIVE SuggestionItems(_)
SuggestionItems(suggestions) ==
  IF suggestions = <<>> THEN <<>>
  ELSE <<Item(Head(suggestions), Call("replaceMisspelling", Head(suggestions)))>>
         \o SuggestionItems(Tail(suggestions))

\* Faulty variant: an empty list renders to no item at all.
RenderNoPlaceholder(suggestions) == SuggestionItems(suggestions)

\* On an array
RenderList(suggestions) ==
  IF Len(suggestions) # 0
    THEN SuggestionItems(suggestions)
    ELSE <<DisabledItem("No Spelling Suggestions")>>

\* On a nullable array: reading .length of null throws
_renderSuggestionMenuItems_(suggestions) ==
  IF IsNull(suggestions)
    THEN [threw |-> TRUE, items |-> <<>>]
    ELSE [threw |-> FALSE, items |-> RenderList(Val(suggestions))]

-----------------------------------------------------------------------------
(* launchMenu *)

TruncateAt == 50
KeepChars == 47

\* Faulty variant: the capability flag of the spellchecker is not consulted.
GateIgnoresCapability(self, params) ==
  /\ params.isEditable
  /\ Truthy(params.misspelledWord)
  /\ ~IsNull(self.spellchecker)

\* params.isEditable && params.misspelledWord && this.spellchecker &&
\* this.spellchecker.hasSpellchecker
SpellingGate(self, params) ==
  /\ params.isEditable
  /\ Truthy(params.misspelledWord)
  /\ ~IsNull(self.spellchecker)
  /\ Val(self.spellchecker).hasSpellchecker

\* suggestions.primary.suggestions || suggestions.secondary.suggestions || []
\* (reading .suggestions of null throws; an array, even empty, is truthy)
SuggList(suggestions) ==
  IF IsNull(suggestions.primary)
    THEN [threw |-> TRUE, list |-> Null]
  ELSE IF ~IsNull(Val(suggestions.primary).suggestions)
    THEN [threw |-> FALSE, list |-> Val(suggestions.primary).suggestions]
  ELSE IF IsNull(suggestions.secondary)
    THEN [threw |-> TRUE, list |-> Null]
  ELSE IF ~IsNull(Val(suggestions.secondary).suggestions)
    THEN [threw |-> FALSE, list |-> Val(suggestions.secondary).suggestions]
  ELSE [threw |-> FALSE, list |-> Some(<<>>)]

\* The nodes pushed inside the spelling branch, after the suggestions query
SpellingNodes(suggestions) ==
  IF ~IsNull(suggestions.primary) /\ ~IsNull(suggestions.secondary)
    THEN LET p == Val(suggestions.primary)
             s == Val(suggestions.secondary)
             rp == _renderSuggestionMenuItems_(p.suggestions)
             rs == _renderSuggestionMenuItems_(s.suggestions)
         IN  IF rp.threw \/ rs.threw
               THEN [threw |-> TRUE, nodes |-> <<>>]
               ELSE [threw |-> FALSE,
                     nodes |-> <<Submenu(LanguageLabel(p.language), rp.items),
                                 Submenu(LanguageLabel(s.language), rs.items),
                                 Separator>>]
    ELSE LET sl == SuggList(suggestions)
             r == IF sl.threw THEN [threw |-> TRUE, items |-> <<>>]
                  ELSE _renderSuggestionMenuItems_(sl.list)
         IN  IF r.threw
               THEN [threw |-> TRUE, nodes |-> <<>>]
               ELSE [threw |-> FALSE, nodes |-> r.items \o <<Separator>>]

\* Spelling suggestions
SpellingSection(self, params, suggestions) ==
  IF SpellingGate(self, params)
    THEN LET r == SpellingNodes(suggestions)
         IN  [threw |-> r.threw, nodes |-> r.nodes,
              calls |-> <<Call("suggestions", params.misspelledWord)>>]
    ELSE [threw |-> FALSE, nodes |-> <<>>, calls |-> <<>>]

\* URLS
UrlSection(params, plat) ==
  IF Truthy(params.linkURL)
    THEN <<Item("Open Link", Call("openExternal", params.linkURL))>>
         \o (IF plat = "darwin"
               THEN <<Item("Open Link in Background",
                           Call("openExternalNoActivate", params.linkURL))>>
               ELSE <<>>)
         \o <<Item("Copy link Address", Call("writeText", params.linkURL)),
              Separator>>
    ELSE <<>>

\* Faulty variant: the selection is cut as soon as it is longer than what is kept.
DisplayTextCutEarly(selectionText) ==
  IF Len(selectionText) > KeepChars
    THEN Substr0(selectionText, KeepChars) \o Ellipsis
    ELSE selectionText

DisplayText(selectionText) ==
  IF Len(selectionText) >= TruncateAt
    THEN Substr0(selectionText, KeepChars) \o Ellipsis
    ELSE selectionText

SearchURL(selectionText) ==
  "https://google.com/search?q=" \o encodeURIComponent(selectionText)

\* Lookup & search
SearchSection(self, params) ==
  IF Truthy(params.selectionText)
    THEN (IF SpellingGate(self, params)
            THEN <<Item("Add " \o LQuote \o params.misspelledWord \o RQuote
                          \o " to Dictionary",
                        Call("addCustomWord", params.misspelledWord))>>
            ELSE <<>>)
         \o <<Item("Search Google for " \o LQuote
                     \o DisplayText(params.selectionText) \o RQuote,
                   Call("openExternal", SearchURL(params.selectionText))),
              Separator>>
    ELSE <<>>

\* Undo / redo
UndoRedoSection(editFlags) ==
  IF editFlags.canUndo \/ editFlags.canRedo
    THEN <<RoleItem("Undo", "undo", editFlags.canUndo),
           RoleItem("Redo", "redo", editFlags.canRedo),
           Separator>>
    ELSE <<>>

\* The array literal of the text editing menu after .filter(item !== null)
TextEditingMenu(editFlags) ==
  (IF editFlags.canCut THEN <<RoleItem("Cut", "cut", TRUE)>> ELSE <<>>)
  \o (IF editFlags.canCopy THEN <<RoleItem("Copy", "copy", TRUE)>> ELSE <<>>)
  \o (IF editFlags.canPaste THEN <<RoleItem("Paste", "paste", TRUE)>> ELSE <<>>)
  \o (IF editFlags.canPaste
        THEN <<RoleItem("Paste and match style", "pasteandmatchstyle", TRUE)>>
        ELSE <<>>)
  \o (IF editFlags.canSelectAll
        THEN <<RoleItem("Select all", "selectall", TRUE)>> ELSE <<>>)

\* Faulty variant: the separator is pushed whether or not an item was.
TextEditingAlwaysSeparated(editFlags) ==
  TextEditingMenu(editFlags) \o <<Separator>>

\* Faulty variant: 'Paste and match style' is gated by canCopy.
TextEditingPasteStyleByCopy(editFlags) ==
  LET textEditingMenu ==
        (IF editFlags.canCut THEN <<RoleItem("Cut", "cut", TRUE)>> ELSE <<>>)
        \o (IF editFlags.canCopy THEN <<RoleItem("Copy", "copy", TRUE)>> ELSE <<>>)
        \o (IF editFlags.canPaste THEN <<RoleItem("Paste", "paste", TRUE)>> ELSE <<>>)
        \o (IF editFlags.canCopy
              THEN <<RoleItem("Paste and match style", "pasteandmatchstyle", TRUE)>>
              ELSE <<>>)
        \o (IF editFlags.canSelectAll
              THEN <<RoleItem("Select all", "selectall", TRUE)>> ELSE <<>>)
  IN  IF Len(textEditingMenu) # 0
        THEN textEditingMenu \o <<Separator>>
        ELSE <<>>

\* Text editing
TextEditingSection(editFlags) ==
  LET textEditingMenu == TextEditingMenu(editFlags)
  IN  IF Len(textEditingMenu) # 0
        THEN textEditingMenu \o <<Separator>>
        ELSE <<>>

\* Current Page
CurrentPageSection(self) ==
  LET copyItem ==
        IF self.config.copyCurrentPageUrlOption
          THEN <<Item("Copy current URL", Call("writeText", LocationHref))>>
          ELSE <<>>
      openItem ==
        IF self.config.openCurrentPageInBrowserOption
          THEN <<Item("Open page in Browser", Call("openExternal", LocationHref))>>
          ELSE <<>>
      currentPageHasOption ==
        \/ self.config.copyCurrentPageUrlOption
        \/ self.config.openCurrentPageInBrowserOption
  IN  copyItem \o openItem
      \o (IF currentPageHasOption THEN <<Separator>> ELSE <<>>)

\* Faulty variant: the two fixed items are pushed in the other order.
WaveboxSectionSwapped(params) ==
  <<Item("Inspect", Call("inspectElement", params.position)),
    Item("Wavebox Settings", Call("sendToHost", "open-settings"))>>

\* Wavebox
WaveboxSection(params) ==
  <<Item("Wavebox Settings", Call("sendToHost", "open-settings")),
    Item("Inspect", Call("inspectElement", params.position))>>

\* The handler: the template it builds, the collaborators it calls while it
\* runs, and whether it threw before reaching Menu.buildFromTemplate.
launchMenu(self, params, suggestions, plat) ==
  LET spelling == SpellingSection(self, params, suggestions)
      menuTemplate ==
        spelling.nodes
        \o UrlSection(params, plat)
        \o SearchSection(self, params)
        \o UndoRedoSection(params.editFlags)
        \o TextEditingSection(params.editFlags)
        \o CurrentPageSection(self)
        \o WaveboxSection(params)
  IN  IF spelling.threw
        THEN [threw |-> TRUE, menuTemplate |-> <<>>, calls |-> spelling.calls]
        ELSE [threw |-> FALSE, menuTemplate |-> menuTemplate,
              calls |-> spelling.calls
                        \o <<Call("buildFromTemplate", ""), Call("popup", "")>>]

-----------------------------------------------------------------------------
(* Inputs *)

Platforms == {"darwin", "linux"}

\* undefined, a spellchecker without the capability, a spellchecker with it
Spellcheckers ==
  {Null, Some([hasSpellchecker |-> FALSE]), Some([hasSpellchecker |-> TRUE])}

\* The config argument: {} (the default), partial and complete objects
Configs ==
  {<<>>,
   [copyCurrentPageUrlOption |-> TRUE],
   [openCurrentPageInBrowserOption |-> TRUE],
   [copyCurrentPageUrlOption |-> TRUE, openCurrentPageInBrowserOption |-> TRUE],
   [copyCurrentPageUrlOption |-> FALSE, openCurrentPageInBrowserOption |-> TRUE]}

Words == <<"Inspect", "the", "ten">>
Word(i) == Words[((i - 1) % Len(Words)) + 1]

\* Suggestion lists of the handler's inputs: <<>>, <<"Inspect">>, <<"Inspect", "the">>, ...
WordLists == {[i \in 1..n |-> Word(i)] : n \in 0..MaxSuggestions}

\* A language's entry of a suggestions result: null, or a language with a
\* null or present list
LanguageEntries(language) ==
  {Null, Some([language |-> language, suggestions |-> Null])}
  \cup {Some([language |-> language, suggestions |-> Some(l)]) : l \in WordLists}

SuggestionResults ==
  [primary : LanguageEntries("en_US"), secondary : LanguageEntries("xx_XX")]

\* What stands for the result when spellchecker.suggestions is never called
NotQueried == [primary |-> Null, secondary |-> Null]

EditFlags ==
  [canUndo : BOOLEAN, canRedo : BOOLEAN, canCut : BOOLEAN,
   canCopy : BOOLEAN, canPaste : BOOLEAN, canSelectAll : BOOLEAN]

NoEditFlags ==
  [canUndo |-> FALSE, canRedo |-> FALSE, canCut |-> FALSE,
   canCopy |-> FALSE, canPaste |-> FALSE, canSelectAll |-> FALSE]

ParamsOver(selections, flags) ==
  [isEditable : BOOLEAN,
   misspelledWord : {"", "teh"},
   selectionText : selections,
   linkURL : {"", "https://example.com/a b"},
   editFlags : flags,
   position : {"10,20"}]

\* The suggestions results to pair with an instance and params: every result
\* when the handler queries the spellchecker, none otherwise
ResultsFor(self, params) ==
  IF SpellingGate(self, params) THEN SuggestionResults ELSE {NotQueried}

LaunchArg(self, params, suggestions, plat) ==
  [self |-> self, params |-> params, suggestions |-> suggestions,
   platform |-> plat]

Instances == {NewInstance(1, sc, cfg) : sc \in Spellcheckers, cfg \in Configs}

\* The first n characters of unit repeated
RECURSIVE Repeated(_, _)
Repeated(unit, n) ==
  IF n <= Len(unit) THEN Substr0(unit, n)
  ELSE unit \o Repeated(unit, n - Len(unit))

SelectionUnits == {"ab c&", "x^?y"}

LongSelections == {Repeated(u, n) : u \in SelectionUnits, n \in 0..MaxSelLen}

-----------------------------------------------------------------------------
(* Specification of one run of the handler on any input *)

Idle ==
  /\ listeners = <<>>
  /\ constructed = 0
  /\ lastEvent = <<>>
  /\ menus = <<>>
  /\ effects = <<>>

InitLaunch ==
  /\ Idle
  /\ platform \in Platforms
  /\ \E self \in Instances,
        params \in ParamsOver({"", "hello world"}, EditFlags) :
       \E sg \in ResultsFor(self, params) :
         arg = LaunchArg(self, params, sg, platform)
  /\ ret = <<>>

Launch ==
  /\ ret = <<>>
  /\ ret' = <<launchMenu(arg.self, arg.params, arg.suggestions, arg.platform)>>
  /\ UNCHANGED <<platform, listeners, constructed, lastEvent, menus, effects, arg>>

NextLaunch == Launch

SpecLaunch == InitLaunch /\ [][NextLaunch]_vars

-----------------------------------------------------------------------------
(* Specification of one run of the handler on selections of every length *)

DefaultInstances == {NewInstance(1, sc, <<>>) : sc \in Spellcheckers}

PrimaryOnly ==
  [primary |-> Some([language |-> "en_US", suggestions |-> Some(<<"the", "ten">>)]),
   secondary |-> Null]

InitSearch ==
  /\ Idle
  /\ platform = "linux"
  /\ \E self \in DefaultInstances,
        params \in ParamsOver(LongSelections, {NoEditFlags}) :
       arg = LaunchArg(self, params,
                       IF SpellingGate(self, params) THEN PrimaryOnly ELSE NotQueried,
                       "linux")
  /\ ret = <<>>

SpecSearch == InitSearch /\ [][NextLaunch]_vars

-----------------------------------------------------------------------------
(* Specification of the suggestion renderer on any list *)

RenderInputs == UNION {[1..n -> {Words[i] : i \in 1..Len(Words)}] : n \in 0..MaxRenderLen}

InitRender ==
  /\ Idle
  /\ platform = "linux"
  /\ \E l \in RenderInputs : arg = [suggestions |-> l]
  /\ ret = <<>>

Render ==
  /\ ret = <<>>
  /\ ret' = <<_renderSuggestionMenuItems_(Some(arg.suggestions))>>
  /\ UNCHANGED <<platform, listeners, constructed, lastEvent, menus, effects, arg>>

NextRender == Render

SpecRender == InitRender /\ [][NextRender]_vars

-----------------------------------------------------------------------------
(* Properties of the handler's template *)

\* The handler has run and handed a template to Menu.buildFromTemplate
Produced == ret # <<>> /\ ~ret[1].threw
Template == ret[1].menuTemplate

SeparatorCount(t) == Cardinality({i \in 1..Len(t) : IsSeparator(t[i])})

\* The spelling gate as the specification words it
GateAsSpecified(a) ==
  /\ a.params.isEditable = TRUE
  /\ a.params.misspelledWord # ""
  /\ a.self.spellchecker # Null
  /\ a.self.spellchecker[1].hasSpellchecker = TRUE

BothLanguages(a) ==
  a.suggestions.primary # Null /\ a.suggestions.secondary # Null

\* C1: the template handed to Menu.buildFromTemplate never starts with a
\* separator, never ends with one and never holds two adjacent separators.
C1_NoStraySeparators ==
  Produced =>
    LET t == Template
    IN  /\ Len(t) >= 1
        /\ ~IsSeparator(t[1])
        /\ ~IsSeparator(t[Len(t)])
        /\ \A i \in 1..(Len(t) - 1) : ~(IsSeparator(t[i]) /\ IsSeparator(t[i + 1]))

\* Every section emitted something: six separators in one template
C1_Witness ==
  /\ Produced
  /\ SeparatorCount(Template) = 6
  /\ arg.platform = "darwin"

\* C2: when the spelling gate holds the handler never throws, whatever of
\* primary, secondary and their lists is null: it produces a template.
C2_NeverThrows ==
  (ret # <<>> /\ GateAsSpecified(arg)) =>
    (~ret[1].threw /\ Len(ret[1].menuTemplate) >= 2)

IsPasteItem(node) == node.role \in {"paste", "pasteandmatchstyle"}
NotPasteItem(node) == ~IsPasteItem(node)

\* The handler on the same input with editFlags.canPaste false
WithoutCanPaste(a) ==
  launchMenu(a.self, [a.params EXCEPT !.editFlags.canPaste = FALSE],
             a.suggestions, a.platform)

RemoveAt(t, i) == SubSeq(t, 1, i - 1) \o SubSeq(t, i + 1, Len(t))

\* C4 as stated: with canPaste false the template is the canPaste-true template
\* without its two paste items, and nothing else differs.
C4_OnlyPasteItemsRemoved ==
  (Produced /\ arg.params.editFlags.canPaste) =>
    /\ ~WithoutCanPaste(arg).threw
    /\ WithoutCanPaste(arg).menuTemplate = SelectSeq(Template, NotPasteItem)

\* C4 as amended: the two paste items are removed, and with them the text
\* editing section's separator when they were the section's only items
\* (canCut, canCopy and canSelectAll all false); nothing else differs.  An
\* input on which the handler throws throws with either value of canPaste.
C4_PasteItemsAndOwnSeparatorRemoved ==
  (ret # <<>> /\ arg.params.editFlags.canPaste) =>
    LET other == WithoutCanPaste(arg)
        f == arg.params.editFlags
    IN  /\ other.threw = ret[1].threw
        /\ ~ret[1].threw =>
             LET t == Template
                 kept == SelectSeq(t, NotPasteItem)
                 first == CHOOSE i \in 1..Len(t) : t[i].role = "paste"
             IN  /\ Len(t) = Len(kept) + 2
                 /\ t[first].label = "Paste"
                 /\ t[first + 1].label = "Paste and match style"
                 /\ IF ~f.canCut /\ ~f.canCopy /\ ~f.canSelectAll
                      THEN /\ IsSeparator(kept[first])
                           /\ other.menuTemplate = RemoveAt(kept, first)
                      ELSE other.menuTemplate = kept

\* The paste items are the text editing section's only items, after another section
C4_Witness ==
  /\ Produced
  /\ arg.params.editFlags.canPaste
  /\ ~arg.params.editFlags.canCut
  /\ ~arg.params.editFlags.canCopy
  /\ ~arg.params.editFlags.canSelectAll
  /\ arg.params.editFlags.canUndo
  /\ \E i \in 1..Len(Template) : Template[i].role = "pasteandmatchstyle"

LabelCount(t, label) == Cardinality({i \in 1..Len(t) : t[i].label = label})

IsSuggestionItem(node) == node.click.op = "replaceMisspelling"

FixedLabelCount(t, label) ==
  Cardinality({i \in 1..Len(t) : t[i].label = label /\ ~IsSuggestionItem(t[i])})

EndsWithFixedSection(t) ==
  /\ Len(t) >= 2
  /\ t[Len(t) - 1].label = "Wavebox Settings"
  /\ t[Len(t) - 1].click = [op |-> "sendToHost", arg |-> "open-settings"]
  /\ t[Len(t)].label = "Inspect"
  /\ t[Len(t)].click = [op |-> "inspectElement", arg |-> arg.params.position]
  /\ (Len(t) > 2 => IsSeparator(t[Len(t) - 2]))

\* C6 as stated: the template ends with 'Wavebox Settings' then 'Inspect', a
\* separator before them when anything precedes, and each of the two labels
\* occurs exactly once in the template.
C6_FixedSectionLastLabelsOnce ==
  Produced =>
    /\ EndsWithFixedSection(Template)
    /\ LabelCount(Template, "Wavebox Settings") = 1
    /\ LabelCount(Template, "Inspect") = 1

\* C6 as amended: the same, the two labels occurring exactly once among the
\* nodes that are not flattened spelling suggestions (a suggestion's text is
\* its label, and may be one of the two words).
C6_FixedSectionLast ==
  Produced =>
    /\ EndsWithFixedSection(Template)
    /\ FixedLabelCount(Template, "Wavebox Settings") = 1
    /\ FixedLabelCount(Template, "Inspect") = 1

\* A template with other sections before the fixed one, a flattened
\* suggestion among them
C6_Witness ==
  /\ Produced
  /\ Len(Template) > 4
  /\ \E i \in 1..Len(Template) : IsSuggestionItem(Template[i])
  /\ arg.self.config.copyCurrentPageUrlOption

\* The list the specification selects when not both languages are present
ListAsSpecified(sg) ==
  LET entry == IF sg.primary # Null THEN sg.primary ELSE sg.secondary
  IN  IF entry = Null THEN <<>>
      ELSE IF entry[1].suggestions = Null THEN <<>>
      ELSE entry[1].suggestions[1]

\* C8: when the gate holds and not both languages are present, the template
\* starts with the rendering of the list of the language that is present
\* (primary, else secondary, else the empty list), flattened, then a separator.
C8_FlattenedSuggestions ==
  (ret # <<>> /\ GateAsSpecified(arg) /\ ~BothLanguages(arg)) =>
    LET items == RenderList(ListAsSpecified(arg.suggestions))
    IN  /\ ~ret[1].threw
        /\ Len(ret[1].menuTemplate) > Len(items)
        /\ SubSeq(ret[1].menuTemplate, 1, Len(items) + 1) = items \o <<Separator>>

HasSpellingNodes(t) ==
  \E i \in 1..Len(t) :
    \/ t[i].type = "submenu"
    \/ IsSuggestionItem(t[i])
    \/ (t[i].label = "No Spelling Suggestions" /\ ~t[i].enabled)

HasAddToDictionary(t) == \E i \in 1..Len(t) : t[i].click.op = "addCustomWord"

QueriesSpellchecker(r) == \E i \in 1..Len(r.calls) : r.calls[i].op = "suggestions"

\* C9: a produced template holds the spelling section exactly when the gate
\* holds; with a spellchecker whose hasSpellchecker is false the handler does
\* exactly what it does without a spellchecker: same template, no suggestion
\* node, no 'Add ... to Dictionary', and spellchecker.suggestions is not called.
C9_SpellingGate ==
  ret # <<>> =>
    /\ ~ret[1].threw => (HasSpellingNodes(Template) <=> GateAsSpecified(arg))
    /\ (arg.self.spellchecker # Null /\ ~arg.self.spellchecker[1].hasSpellchecker) =>
         /\ ret[1] = launchMenu([arg.self EXCEPT !.spellchecker = Null],
                                arg.params, arg.suggestions, arg.platform)
         /\ ~ret[1].threw
         /\ ~HasSpellingNodes(Template)
         /\ ~HasAddToDictionary(Template)
         /\ ~QueriesSpellchecker(ret[1])

\* An editable misspelled selection, under a spellchecker without the capability
C9_Witness ==
  /\ Produced
  /\ arg.params.isEditable
  /\ arg.params.misspelledWord = "teh"
  /\ arg.params.selectionText # ""
  /\ arg.self.spellchecker = Some([hasSpellchecker |-> FALSE])

-----------------------------------------------------------------------------
(* Properties of the search item *)

SearchPrefix == "Search Google for "

IsSearchItem(node) ==
  /\ Len(node.label) >= Len(SearchPrefix)
  /\ SubSeq(node.label, 1, Len(SearchPrefix)) = SearchPrefix

SearchItems(t) == {i \in 1..Len(t) : IsSearchItem(t[i])}

\* C3: for a non-empty selection the search item's label shows the first 47
\* characters and one ellipsis when the selection has 50 characters or more,
\* and the whole selection otherwise; its click opens the search URL of the
\* whole selection, percent-encoded.
C3_SearchItem ==
  (Produced /\ arg.params.selectionText # "") =>
    LET sel == arg.params.selectionText
        t == Template
        shown == IF Len(sel) >= 50 THEN SubSeq(sel, 1, 47) \o "^" ELSE sel
    IN  /\ Cardinality(SearchItems(t)) = 1
        /\ \A i \in SearchItems(t) :
             /\ t[i].label = "Search Google for {" \o shown \o "}"
             /\ Len(t[i].label) = Len(SearchPrefix) + 2
                                    + (IF Len(sel) >= 50 THEN 48 ELSE Len(sel))
             /\ t[i].click = [op |-> "openExternal",
                              arg |-> "https://google.com/search?q="
                                        \o encodeURIComponent(sel)]
             /\ t[i].enabled

\* A selection of exactly 50 characters, cut
C3_Witness ==
  /\ Produced
  /\ Len(arg.params.selectionText) = 50
  /\ \E i \in SearchItems(Template) :
       Len(Template[i].label) = Len(SearchPrefix) + 50

-----------------------------------------------------------------------------
(* Properties of the suggestion renderer *)

\* C5: an empty list renders to the one disabled item 'No Spelling
\* Suggestions'; a list of n >= 1 suggestions renders to n enabled items, the
\* suggestions in input order, each replacing the misspelling by its own text.
C5_Render ==
  ret # <<>> =>
    LET l == arg.suggestions
        r == ret[1]
    IN  /\ ~r.threw
        /\ IF l = <<>>
             THEN /\ Len(r.items) = 1
                  /\ r.items[1].label = "No Spelling Suggestions"
                  /\ ~r.items[1].enabled
                  /\ r.items[1].type = "normal"
             ELSE /\ Len(r.items) = Len(l)
                  /\ \A i \in 1..Len(l) :
                       /\ r.items[i].label = l[i]
                       /\ r.items[i].enabled
                       /\ r.items[i].type = "normal"
                       /\ r.items[i].click = [op |-> "replaceMisspelling", arg |-> l[i]]

\* A list with a repeated suggestion, rendered
C5_Witness ==
  /\ ret # <<>>
  /\ Len(arg.suggestions) >= 3
  /\ arg.suggestions[1] = arg.suggestions[3]
  /\ arg.suggestions[1] # arg.suggestions[2]
  /\ Len(ret[1].items) = Len(arg.suggestions)

-----------------------------------------------------------------------------
(* Specification of the listener's life: constructions, context-menu        *)
(* events, and the user activating an item of a popped up menu or           *)
(* dismissing it                                                             *)

LifeSpellcheckers == {Null, Some([hasSpellchecker |-> TRUE])}

LifeConfigs ==
  {<<>>,
   [copyCurrentPageUrlOption |-> TRUE, openCurrentPageInBrowserOption |-> TRUE]}

LifeParams ==
  [isEditable : {TRUE},
   misspelledWord : {"", "teh"},
   selectionText : {"", "hello world"},
   linkURL : {"", "https://example.com/a b"},
   editFlags : {[canUndo |-> TRUE, canRedo |-> FALSE, canCut |-> FALSE,
                 canCopy |-> TRUE, canPaste |-> TRUE, canSelectAll |-> FALSE]},
   position : {"10,20"}]

LifeResults ==
  [primary : {Null, Some([language |-> "en_US",
                          suggestions |-> Some([i \in 1..MaxSuggestions |-> Word(i)])])},
   secondary : {Null, Some([language |-> "xx_XX", suggestions |-> Some(<<>>)])}]

LifeResultsFor(self, params) ==
  IF SpellingGate(self, params) THEN LifeResults ELSE {NotQueried}

\* EventEmitter.emit: the listeners run in order of registration; a listener
\* that throws ends the emit
RECURSIVE EmitContextMenu(_, _, _, _)
EmitContextMenu(ls, params, suggestions, plat) ==
  IF ls = <<>> THEN <<>>
  ELSE LET r == launchMenu(Head(ls), params, suggestions, plat)
           run == [id |-> Head(ls).id, result |-> r]
       IN  IF r.threw THEN <<run>>
           ELSE <<run>> \o EmitContextMenu(Tail(ls), params, suggestions, plat)

RECURSIVE PoppedMenus(_)
PoppedMenus(runs) ==
  IF runs = <<>> THEN <<>>
  ELSE (IF Head(runs).result.threw THEN <<>>
        ELSE <<[by |-> Head(runs).id,
                template |-> Head(runs).result.menuTemplate,
                state |-> "open"]>>)
       \o PoppedMenus(Tail(runs))

\* The items of a popped up menu the user can activate: the enabled items of
\* the template and of its submenus
ClickableItems(t) ==
  {t[i] : i \in {k \in 1..Len(t) : t[k].type = "normal" /\ t[k].enabled}}
  \cup UNION {{t[i].submenu[j] :
                 j \in {k \in 1..Len(t[i].submenu) : t[i].submenu[k].enabled}}
              : i \in {k \in 1..Len(t) : t[k].type = "submenu"}}

\* What activating an item runs: the host's role, or the item's click closure
Activate(item) ==
  IF item.role # NoRole THEN Call("role", item.role) ELSE item.click

Init ==
  /\ platform \in Platforms
  /\ listeners = <<>>
  /\ constructed = 0
  /\ lastEvent = <<>>
  /\ menus = <<>>
  /\ effects = <<>>
  /\ arg = <<>>
  /\ ret = <<>>

\* new ContextMenu(spellchecker, config)
Construct(spellchecker, config) ==
  /\ constructed < MaxInstances
  /\ constructed' = constructed + 1
  /\ listeners' = RebindListeners(listeners,
                                  NewInstance(constructed + 1, spellchecker, config))
  /\ UNCHANGED <<platform, lastEvent, menus, effects, arg, ret>>

\* webContents emits 'context-menu'; menus are modal, so none is open
ContextMenuEvent(params, suggestions) ==
  /\ listeners # <<>>
  /\ \A m \in 1..Len(menus) : menus[m].state # "open"
  /\ LET runs == EmitContextMenu(listeners, params, suggestions, platform)
     IN  /\ lastEvent' = <<[params |-> params, suggestions |-> suggestions,
                            latest |-> constructed, runs |-> runs]>>
         /\ menus' = PoppedMenus(runs)
  /\ effects' = <<>>
  /\ UNCHANGED <<platform, listeners, constructed, arg, ret>>

\* The user activates an item of an open menu, which closes it
Click(m, item) ==
  /\ menus[m].state = "open"
  /\ item \in ClickableItems(menus[m].template)
  /\ effects' = Append(effects, [menu |-> m, item |-> item, call |-> Activate(item)])
  /\ menus' = [menus EXCEPT ![m].state = "activated"]
  /\ UNCHANGED <<platform, listeners, constructed, lastEvent, arg, ret>>

\* The user dismisses an open menu
Dismiss(m) ==
  /\ menus[m].state = "open"
  /\ menus' = [menus EXCEPT ![m].state = "dismissed"]
  /\ UNCHANGED <<platform, listeners, constructed, lastEvent, effects, arg, ret>>

Next ==
  \/ \E sc \in LifeSpellcheckers, cfg \in LifeConfigs : Construct(sc, cfg)
  \/ /\ listeners # <<>>
     /\ \E params \in LifeParams :
          \E sg \in LifeResultsFor(listeners[Len(listeners)], params) :
            ContextMenuEvent(params, sg)
  \/ \E m \in 1..Len(menus) :
       \E item \in ClickableItems(menus[m].template) : Click(m, item)
  \/ \E m \in 1..Len(menus) : Dismiss(m)

Spec == Init /\ [][Next]_vars

-----------------------------------------------------------------------------
(* Properties of the listener's life *)

\* C7: after one or more constructions exactly one listener is registered,
\* that of the latest instance, and a context-menu event builds and pops up
\* exactly one menu, built by the instance that was the latest.
C7_OneListenerOneMenu ==
  /\ constructed >= 1 =>
       (Len(listeners) = 1 /\ listeners[1].id = constructed)
  /\ lastEvent # <<>> =>
       /\ Len(lastEvent[1].runs) = 1
       /\ lastEvent[1].runs[1].id = lastEvent[1].latest
       /\ Len(menus) = 1

ItemActionOps ==
  {"replaceMisspelling", "openExternal", "openExternalNoActivate", "writeText",
   "addCustomWord", "sendToHost", "inspectElement"}

\* C10: the handler runs no item action while it builds the template; an
\* action runs only by the user activating an item of a popped up menu, and
\* it is that item's action; an event leads to at most one action, and to none
\* while its menu is open or when it was dismissed.
C10_ActionsDeferred ==
  /\ lastEvent # <<>> =>
       \A r \in 1..Len(lastEvent[1].runs) :
         \A c \in 1..Len(lastEvent[1].runs[r].result.calls) :
           lastEvent[1].runs[r].result.calls[c].op \notin ItemActionOps
  /\ Len(effects) <= 1
  /\ \A k \in 1..Len(effects) :
       /\ effects[k].menu \in 1..Len(menus)
       /\ menus[effects[k].menu].state = "activated"
       /\ effects[k].item \in ClickableItems(menus[effects[k].menu].template)
       /\ effects[k].call = Activate(effects[k].item)
  /\ (\A m \in 1..Len(menus) : menus[m].state \in {"open", "dismissed"}) =>
       effects = <<>>

\* The user activated 'Open Link' of the popped up menu
C10_Witness ==
  /\ Len(menus) = 1
  /\ menus[1].state = "activated"
  /\ Len(effects) = 1
  /\ effects[1].item.label = "Open Link"
  /\ effects[1].call.op = "openExternal"

====
